---------------------------- MODULE Spec2Model ----------------------------
(***************************************************************************)
(* The block-production duty engine of the validator client                *)
(* (eth2/block_producer/src/lib.rs): BlockProducer::poll and the           *)
(* produce_block pipeline it drives.                                       *)
(*                                                                         *)
(* poll is a synchronous method on &mut self, so one producer runs one     *)
(* poll at a time.  A poll is modelled as a chain of steps, one per call   *)
(* to a collaborator (clock, duties reader, beacon node, signer); each     *)
(* step holds the call and all the code between it and the next call.      *)
(* The collaborators are trait objects: under Spec they answer anything    *)
(* their interface allows; under SpecPolling they are the test doubles of  *)
(* tests::polling.                                                         *)
(*                                                                         *)
(* The time units the engine depends on (eth2/types/src/slot_epoch.rs),    *)
(* Slot and Epoch, newtypes over u64 with saturating arithmetic, are       *)
(* checked under SpecSlotEpoch: its initial states draw a type and two     *)
(* operands, its actions apply one operation of the type to them or walk   *)
(* an Epoch's slot_iter.  A Slot or an Epoch is modelled by its u64 field. *)
(***************************************************************************)
EXTENDS Integers, Sequences, FiniteSets

VARIABLES
    last_processed_slot,  \* BlockProducer.last_processed_slot : Option<u64>
    epoch_map,            \* BlockProducer.epoch_map   (the DutiesReader)
    slot_clock,           \* BlockProducer.slot_clock  (the SlotClock)
    beacon_node,          \* BlockProducer.beacon_node (the BeaconNode)
    signer,               \* BlockProducer.signer      (the Signer)
    pc,                   \* where the running poll stands; "idle" between polls
    slot,                 \* poll's local `slot`: Some once the clock gave one
    block,                \* produce_block's local `block`
    ret,                  \* what the latest poll returned; None while one runs
    calls,                \* the calls the latest poll made, in order
    prev_processed_slot,  \* last_processed_slot when the latest poll was entered
    started,              \* the slots whose pipeline was started, in order
    confirmed_before,     \* slots the duties reader confirmed in an earlier poll
    returned_before,      \* slots an earlier poll returned an Ok outcome for
    handled_before,       \* slots an earlier poll returned a pipeline outcome
                          \* or SlotAlreadyProcessed for
    main,                 \* $main of the operation: "Slot" or "Epoch"
    other,                \* $other of the operation: "same" ($main) or "u64"
    lhs,                  \* the left operand, a $main
    rhs,                  \* the right operand, an $other, or the epoch_length
    self,                 \* the receiver of the operation, lhs at first
    applied,              \* the operation applied last, "none" before any
    result,               \* what it returned
    iter,                 \* the SlotIter made by slot_iter, Some once made
    yielded               \* the slots next has yielded, in order

vars == << last_processed_slot, epoch_map, slot_clock, beacon_node, signer,
           pc, slot, block, ret, calls, prev_processed_slot, started,
           confirmed_before, returned_before, handled_before,
           main, other, lhs, rhs, self, applied, result, iter, yielded >>

\* The variables of the block producer and those of the time units.
producer_vars ==
    << last_processed_slot, epoch_map, slot_clock, beacon_node, signer,
       pc, slot, block, ret, calls, prev_processed_slot, started,
       confirmed_before, returned_before, handled_before >>
time_vars == << main, other, lhs, rhs, self, applied, result, iter, yielded >>

collaborators == << epoch_map, beacon_node, signer >>

(***************************************************************************)
(* Bounds of the model.                                                    *)
(***************************************************************************)
\* The clock of Spec returns slots 0..MaxSlot.
MaxSlot == 3
\* tests::polling is run for every produce_slot up to MaxProduceSlot ...
MaxProduceSlot == 100
\* ... and every epoch length up to MaxEpochLength.
MaxEpochLength == 64
\* Slot and Epoch are checked over an unsigned integer of Bits bits, u64
\* scaled down.
Bits == 4

Slots == 0..MaxSlot

(***************************************************************************)
(* Option<T>, Result<PollOutcome, Error>.                                  *)
(***************************************************************************)
None == << >>
Some(x) == << x >>

\* Ok(PollOutcome::name(slot))
Ok(name, s) == << "Ok", name, s >>
\* Err(Error::name)
Err(name) == << "Err", name >>
\* From that keeps the variant and drops the error it was given.
From_lossy(e) == << "Err", "BeaconNodeError", "RemoteFailure" >>

\* Err(Error::BeaconNodeError(e))
From(e) == << "Err", "BeaconNodeError", e >>

IsOk(r) == r # None /\ r[1] = "Ok"
IsErr(r) == r # None /\ r[1] = "Err"

\* The PollOutcome variants produce_block returns.
PipelineOutcomes ==
    { "BlockProduced", "SlashableBlockNotProduced",
      "BeaconNodeUnableToProduceBlock", "SignerRejection" }

\* The variants of BeaconNodeError and of PublishOutcome.
BeaconNodeErrors == { "RemoteFailure", "DecodeFailure" }
PublishOutcomes == { "ValidBlock", "InvalidBlock" }

(***************************************************************************)
(* The collaborators.  A call is logged as <<operation, argument, answer>>.*)
(***************************************************************************)
AnyCollaborator == [ kind |-> "any" ]

\* tests::polling: the five clock values set before the five polls.
PollingScript(produce_slot, epoch_length) ==
    << produce_slot - 1,
       produce_slot,
       produce_slot,
       produce_slot + 1,
       ((produce_slot \div epoch_length) + 1) * epoch_length >>

\* TestingSlotClock: present_slot answers the slot set_slot stored last.
TestingSlotClock(script) ==
    [ kind |-> "TestingSlotClock", script |-> script, pos |-> 0 ]

\* TestEpochMap with the one entry tests::polling inserts.
TestEpochMap(epoch_length, produce_epoch, produce_slot) ==
    [ kind |-> "TestEpochMap", epoch_length |-> epoch_length,
      map |-> { << produce_epoch, produce_slot >> } ]

\* TestBeaconNode with the three results tests::polling configures.
TestBeaconNode ==
    [ kind |-> "TestBeaconNode", produce |-> "Some", publish |-> "ValidBlock",
      nonce |-> "Ok" ]

\* TestSigner signs every message.
TestSigner == [ kind |-> "TestSigner" ]

\* TestingSlotClock::present_slot: Ok(Some(the slot set last)); the test
\* ends with its script.
TestingSlotClock_present_slot(clock) ==
    IF clock.pos < Len(clock.script)
    THEN { << "Some", clock.script[clock.pos + 1] >> }
    ELSE {}

\* SlotClock::present_slot : Result<Option<u64>, _>, as poll takes it apart.
present_slot(clock) ==
    IF clock.kind = "any"
    THEN { << "Err" >>, << "None" >> } \cup { << "Some", s >> : s \in Slots }
    ELSE TestingSlotClock_present_slot(clock)

\* The clock after a read: the test sets the next slot of its script.
set_slot(clock) ==
    IF clock.kind = "any" THEN clock ELSE [ clock EXCEPT !.pos = @ + 1 ]

\* TestEpochMap::is_block_production_slot: the epoch of the slot is looked
\* up in the map; its entry is the one production slot of that epoch.
TestEpochMap_is_block_production_slot(reader, s) ==
    IF reader.epoch_length = 0
    THEN { "EpochLengthIsZero" }
    ELSE LET epoch == s \div reader.epoch_length
             known == { e \in reader.map : e[1] = epoch }
         IN  IF known = {} THEN { "UnknownEpoch" }
             ELSE { IF e[2] = s THEN "true" ELSE "false" : e \in known }

\* DutiesReader::is_block_production_slot : Result<bool, DutiesReaderError>,
\* as poll matches it.
is_block_production_slot(reader, s) ==
    IF reader.kind = "any"
    THEN { "true", "false", "UnknownEpoch", "UnknownValidator",
           "EpochLengthIsZero", "Poisoned" }
    ELSE TestEpochMap_is_block_production_slot(reader, s)

\* BeaconNode::proposer_nonce : Result<u64, BeaconNodeError>
proposer_nonce(node) ==
    IF node.kind = "any" THEN { "Ok" } \cup BeaconNodeErrors
    ELSE { node.nonce }

\* BeaconNode::produce_beacon_block : Result<Option<BeaconBlock>, BeaconNodeError>
produce_beacon_block(node) ==
    IF node.kind = "any" THEN { "Some", "None" } \cup BeaconNodeErrors
    ELSE { node.produce }

\* BeaconNode::publish_beacon_block : Result<PublishOutcome, BeaconNodeError>
publish_beacon_block(node) ==
    IF node.kind = "any" THEN PublishOutcomes \cup BeaconNodeErrors
    ELSE { node.publish }

\* Signer::bls_sign : Option<Signature>
bls_sign(sgn) ==
    IF sgn.kind = "any" THEN { "Some", "None" } ELSE { "Some" }

(***************************************************************************)
(* BlockProducer.                                                          *)
(***************************************************************************)
\* is_processed_slot with `>` for `>=`: the slot processed last is new again.
is_processed_slot_strict(last, s) ==
    IF last # None /\ last[1] > s THEN TRUE ELSE FALSE

\* is_processed_slot with `<=` for `>=`: the comparison turned around.
is_processed_slot_flipped(last, s) ==
    IF last # None /\ last[1] <= s THEN TRUE ELSE FALSE

\* is_processed_slot with `==` for `>=`: only the last slot itself is processed.
is_processed_slot_equal(last, s) ==
    IF last # None /\ last[1] = s THEN TRUE ELSE FALSE

\* is_processed_slot
is_processed_slot(last, s) ==
    IF last # None /\ last[1] >= s THEN TRUE ELSE FALSE

\* poll without the assignment: the slot is left unmarked.
mark_processed_not(last, s) == last

\* poll: `self.last_processed_slot = Some(slot)`
mark_processed(last, s) == Some(s)

\* safe_to_produce that finds every block slashable.
safe_to_produce_never(b) == FALSE

\* safe_to_produce: stubbed out, every block is safe.
safe_to_produce(b) == TRUE

\* clock_outcome with the two errors exchanged.
clock_outcome_exchanged(r) ==
    IF r[1] = "Err" THEN Err("SlotUnknowable")
    ELSE IF r[1] = "None" THEN Err("SlotClockError")
    ELSE None

\* poll: what the clock's answer makes of the call, None to go on.
clock_outcome(r) ==
    IF r[1] = "Err" THEN Err("SlotClockError")
    ELSE IF r[1] = "None" THEN Err("SlotUnknowable")
    ELSE None

\* duties_outcome with the branches of `if is_block_production_slot`
\* exchanged.
duties_outcome_exchanged(ans, s) ==
    CASE ans = "UnknownEpoch"      -> Ok("ProducerDutiesUnknown", s)
      [] ans = "UnknownValidator"  -> Ok("ValidatorIsUnknown", s)
      [] ans = "EpochLengthIsZero" -> Err("EpochLengthIsZero")
      [] ans = "Poisoned"          -> Err("EpochMapPoisoned")
      [] ans = "false"             -> None
      [] ans = "true"              -> Ok("BlockProductionNotRequired", s)

\* duties_outcome with one arm, `Err(_)`, for every DutiesReaderError.
duties_outcome_catch_all(ans, s) ==
    CASE ans = "UnknownEpoch"      -> Ok("ProducerDutiesUnknown", s)
      [] ans = "UnknownValidator"  -> Ok("ProducerDutiesUnknown", s)
      [] ans = "EpochLengthIsZero" -> Ok("ProducerDutiesUnknown", s)
      [] ans = "Poisoned"          -> Ok("ProducerDutiesUnknown", s)
      [] ans = "false"             -> Ok("BlockProductionNotRequired", s)
      [] ans = "true"              -> None

\* poll: what the duties reader's answer makes of the call, None to go on.
duties_outcome(ans, s) ==
    CASE ans = "UnknownEpoch"      -> Ok("ProducerDutiesUnknown", s)
      [] ans = "UnknownValidator"  -> Ok("ValidatorIsUnknown", s)
      [] ans = "EpochLengthIsZero" -> Err("EpochLengthIsZero")
      [] ans = "Poisoned"          -> Err("EpochMapPoisoned")
      [] ans = "false"             -> Ok("BlockProductionNotRequired", s)
      [] ans = "true"              -> None

\* sign_outcome that goes on without a signature.
sign_outcome_ignored(ans, s) == None

\* produce_block, sign_block: what the signer's answer makes of the call,
\* None to go on.
sign_outcome(ans, s) ==
    IF ans = "None" THEN Ok("SignerRejection", s) ELSE None

\* has_candidate that takes a missing block for a block (a default one).
has_candidate_always(ans) == TRUE

\* produce_block: `if let Some(block) = ...produce_beacon_block(..)?`
has_candidate(ans) == ans = "Some"

\* What the history keeps of the poll that ran before the one now entered.
FoldHistory ==
    /\ confirmed_before' =
         IF \E i \in 1..Len(calls) :
                calls[i] = << "is_block_production_slot", "", "true" >>
         THEN confirmed_before \cup { slot[1] }
         ELSE confirmed_before
    /\ returned_before' =
         IF IsOk(ret) THEN returned_before \cup { ret[3] } ELSE returned_before
    /\ handled_before' =
         IF IsOk(ret) /\ ret[2] \in PipelineOutcomes \cup { "SlotAlreadyProcessed" }
         THEN handled_before \cup { ret[3] }
         ELSE handled_before

\* poll, from its entry to the duties lookup: the clock read, its errors,
\* and the already-processed gate.
poll_present_slot ==
    /\ pc = "idle"
    /\ \E r \in present_slot(slot_clock) :
         /\ slot_clock' = set_slot(slot_clock)
         /\ FoldHistory
         /\ prev_processed_slot' = last_processed_slot
         /\ calls' = << << "present_slot", "", r[1] >> >>
         /\ block' = "none"
         /\ IF clock_outcome(r) # None
            THEN /\ slot' = None
                 /\ ret' = clock_outcome(r)
                 /\ pc' = "idle"
            ELSE /\ slot' = Some(r[2])
                 /\ IF ~ is_processed_slot(last_processed_slot, r[2])
                    THEN /\ ret' = None
                         /\ pc' = "is_block_production_slot"
                    ELSE /\ ret' = Ok("SlotAlreadyProcessed", r[2])
                         /\ pc' = "idle"
    /\ UNCHANGED time_vars
    /\ UNCHANGED << last_processed_slot, collaborators, started >>

history == << confirmed_before, returned_before, handled_before >>

\* poll: the duties lookup, and the marking of the slot when it is a
\* block production slot.
poll_is_block_production_slot ==
    /\ pc = "is_block_production_slot"
    /\ \E ans \in is_block_production_slot(epoch_map, slot[1]) :
         /\ calls' = Append(calls, << "is_block_production_slot", "", ans >>)
         /\ IF duties_outcome(ans, slot[1]) # None
            THEN /\ ret' = duties_outcome(ans, slot[1])
                 /\ pc' = "idle"
                 /\ UNCHANGED last_processed_slot
            ELSE /\ last_processed_slot' =
                        mark_processed(last_processed_slot, slot[1])
                 /\ ret' = None
                 /\ pc' = "proposer_nonce"
    /\ UNCHANGED time_vars
    /\ UNCHANGED << collaborators, slot_clock, slot, block,
                    prev_processed_slot, started, history >>

\* produce_block: the proposer nonce.
produce_block_proposer_nonce ==
    /\ pc = "proposer_nonce"
    /\ \E ans \in proposer_nonce(beacon_node) :
         /\ calls' = Append(calls, << "proposer_nonce", "", ans >>)
         /\ started' = Append(started, slot[1])
         /\ IF ans \in BeaconNodeErrors
            THEN ret' = From(ans) /\ pc' = "idle"
            ELSE ret' = None /\ pc' = "sign_randao"
    /\ UNCHANGED time_vars
    /\ UNCHANGED << last_processed_slot, collaborators, slot_clock, slot,
                    block, prev_processed_slot, history >>

\* produce_block: the signature of the encoded nonce, the RANDAO reveal.
produce_block_bls_sign ==
    /\ pc = "sign_randao"
    /\ \E ans \in bls_sign(signer) :
         /\ calls' = Append(calls, << "bls_sign", "producer_nonce", ans >>)
         /\ IF sign_outcome(ans, slot[1]) # None
            THEN ret' = sign_outcome(ans, slot[1]) /\ pc' = "idle"
            ELSE ret' = None /\ pc' = "produce_beacon_block"
    /\ UNCHANGED time_vars
    /\ UNCHANGED << last_processed_slot, collaborators, slot_clock, slot,
                    block, prev_processed_slot, started, history >>

\* produce_block: the candidate block and the safety predicate on it.
produce_block_produce_beacon_block ==
    /\ pc = "produce_beacon_block"
    /\ \E ans \in produce_beacon_block(beacon_node) :
         IF ans \in BeaconNodeErrors
         THEN /\ calls' = Append(calls, << "produce_beacon_block", "", ans >>)
              /\ ret' = From(ans) /\ pc' = "idle" /\ block' = "none"
         ELSE IF ~ has_candidate(ans)
         THEN /\ calls' = Append(calls, << "produce_beacon_block", "", ans >>)
              /\ ret' = Ok("BeaconNodeUnableToProduceBlock", slot[1])
              /\ pc' = "idle" /\ block' = "none"
         ELSE /\ block' = "candidate"
              /\ IF safe_to_produce("candidate")
                 THEN /\ calls' = calls \o
                          << << "produce_beacon_block", "", ans >>,
                             << "safe_to_produce", "", "true" >> >>
                      /\ ret' = None /\ pc' = "sign_block"
                 ELSE /\ calls' = calls \o
                          << << "produce_beacon_block", "", ans >>,
                             << "safe_to_produce", "", "false" >> >>
                      /\ ret' = Ok("SlashableBlockNotProduced", slot[1])
                      /\ pc' = "idle"
    /\ UNCHANGED time_vars
    /\ UNCHANGED << last_processed_slot, collaborators, slot_clock, slot,
                    prev_processed_slot, started, history >>

\* sign_block_calls that asks for the signature before it records.
sign_block_calls_sign_first(ans) ==
    << << "bls_sign", "proposal_root", ans >>, << "store_produce", "", "" >> >>

\* sign_block: the calls it makes, in their order.
sign_block_calls(ans) ==
    << << "store_produce", "", "" >>, << "bls_sign", "proposal_root", ans >> >>

\* sign_block: store_produce, then the signature of the proposal root.
sign_block ==
    /\ pc = "sign_block"
    /\ \E ans \in bls_sign(signer) :
         /\ calls' = calls \o sign_block_calls(ans)
         /\ IF sign_outcome(ans, slot[1]) # None
            THEN /\ ret' = sign_outcome(ans, slot[1])
                 /\ pc' = "idle" /\ UNCHANGED block
            ELSE /\ block' = "signed"
                 /\ ret' = None /\ pc' = "publish_beacon_block"
    /\ UNCHANGED time_vars
    /\ UNCHANGED << last_processed_slot, collaborators, slot_clock, slot,
                    prev_processed_slot, started, history >>

\* publish_outcome that reads the PublishOutcome and reports a block the
\* node found invalid as not produced.
publish_outcome_judged(ans, s) ==
    IF ans \in BeaconNodeErrors THEN From(ans)
    ELSE IF ans = "InvalidBlock" THEN Ok("BeaconNodeUnableToProduceBlock", s)
    ELSE Ok("BlockProduced", s)

\* produce_block: what the answer to publish_beacon_block makes of the
\* call; the PublishOutcome within Ok is dropped.
publish_outcome(ans, s) ==
    IF ans \in BeaconNodeErrors THEN From(ans) ELSE Ok("BlockProduced", s)

\* produce_block: the publication of the signed block.
produce_block_publish_beacon_block ==
    /\ pc = "publish_beacon_block"
    /\ \E ans \in publish_beacon_block(beacon_node) :
         /\ calls' = Append(calls, << "publish_beacon_block", block, ans >>)
         /\ ret' = publish_outcome(ans, slot[1])
         /\ pc' = "idle"
    /\ UNCHANGED time_vars
    /\ UNCHANGED << last_processed_slot, collaborators, slot_clock, slot,
                    block, prev_processed_slot, started, history >>

\* BlockProducer::new, and no poll made yet.
new(spec_epoch_map, spec_slot_clock, spec_beacon_node, spec_signer) ==
    /\ last_processed_slot = None
    /\ epoch_map = spec_epoch_map
    /\ slot_clock = spec_slot_clock
    /\ beacon_node = spec_beacon_node
    /\ signer = spec_signer
    /\ pc = "idle"
    /\ slot = None
    /\ block = "none"
    /\ ret = None
    /\ calls = << >>
    /\ prev_processed_slot = None
    /\ started = << >>
    /\ confirmed_before = {}
    /\ returned_before = {}
    /\ handled_before = {}

\* No operation of Slot or Epoch is under way.
NoArithmetic ==
    /\ main = "Slot"
    /\ other = "u64"
    /\ lhs = 0
    /\ rhs = 0
    /\ self = 0
    /\ applied = "none"
    /\ result = None
    /\ iter = None
    /\ yielded = << >>

\* A producer whose collaborators may answer anything.
Init ==
    /\ new(AnyCollaborator, AnyCollaborator, AnyCollaborator, AnyCollaborator)
    /\ NoArithmetic

Next ==
    \/ poll_present_slot
    \/ poll_is_block_production_slot
    \/ produce_block_proposer_nonce
    \/ produce_block_bls_sign
    \/ produce_block_produce_beacon_block
    \/ sign_block
    \/ produce_block_publish_beacon_block

Spec == Init /\ [][Next]_vars

\* tests::polling, for every produce_slot and epoch length of the bounds
\* that keep produce_slot - 1 and produce_slot + 1 in produce_slot's epoch.
InitPolling ==
    \E epoch_length \in 1..MaxEpochLength, produce_slot \in 1..MaxProduceSlot :
        /\ (produce_slot - 1) \div epoch_length = produce_slot \div epoch_length
        /\ (produce_slot + 1) \div epoch_length = produce_slot \div epoch_length
        /\ new(TestEpochMap(epoch_length, produce_slot \div epoch_length,
                            produce_slot),
               TestingSlotClock(PollingScript(produce_slot, epoch_length)),
               TestBeaconNode, TestSigner)
        /\ NoArithmetic

SpecPolling == InitPolling /\ [][Next]_vars

\* A poll has run to its return.
Returned == pc = "idle" /\ ret # None


(***************************************************************************)
(* What the latest poll did, read off its log of calls.                    *)
(***************************************************************************)
\* The poll made a call of operation op.
Called(op) == \E i \in 1..Len(calls) : calls[i][1] = op
\* The poll made a call of operation op that was answered ans.
Answered(op, ans) ==
    \E i \in 1..Len(calls) : calls[i][1] = op /\ calls[i][3] = ans
\* The poll read slot s from the clock.
Observed(s) == slot = Some(s)
\* The duties reader answered Ok(true) in the poll.
DutyConfirmed == Answered("is_block_production_slot", "true")
\* The poll started the production pipeline.
PipelineStarted == Called("proposer_nonce")
\* The steps of produce_block.
PipelineSteps ==
    { "proposer_nonce", "sign_randao", "produce_beacon_block", "sign_block",
      "publish_beacon_block" }
Max(a, b) == IF a >= b THEN a ELSE b

(***************************************************************************)
(* C1: at most one production attempt per slot: whatever the clock and     *)
(* the collaborators answer, no slot value has its pipeline started        *)
(* (proposer_nonce called) twice.                                          *)
(***************************************************************************)
C1_AtMostOneAttemptPerSlot ==
    \A i, j \in 1..Len(started) : started[i] = started[j] => i = j

\* Two pipelines were started and a later poll, the clock gone back to the
\* first of them, started none.
C1_Witness ==
    /\ Returned
    /\ Len(started) >= 2
    /\ Observed(started[1])
    /\ ~ PipelineStarted

(***************************************************************************)
(* C2: monotonicity: no step of any poll decreases last_processed_slot,    *)
(* and none takes it from Some back to None.                               *)
(***************************************************************************)
C2_Monotonic ==
    [][ last_processed_slot # None =>
            /\ last_processed_slot' # None
            /\ last_processed_slot'[1] >= last_processed_slot[1] ]_vars

\* A poll that returned an Err has advanced last_processed_slot from one
\* slot to a greater one.
C2_Witness ==
    /\ Returned
    /\ IsErr(ret)
    /\ prev_processed_slot # None
    /\ last_processed_slot # None
    /\ last_processed_slot[1] > prev_processed_slot[1]

(***************************************************************************)
(* C3: the already-processed gate: a poll that reads slot s while          *)
(* last_processed_slot is Some(p), p >= s, returns                         *)
(* Ok(SlotAlreadyProcessed(s)) at once, leaves last_processed_slot as it   *)
(* was and calls nothing but the clock.                                    *)
(***************************************************************************)
C3_AlreadyProcessedGate ==
    (slot # None /\ prev_processed_slot # None
        /\ prev_processed_slot[1] >= slot[1])
    => /\ pc = "idle"
       /\ ret = Ok("SlotAlreadyProcessed", slot[1])
       /\ last_processed_slot = prev_processed_slot
       /\ calls = << << "present_slot", "", "Some" >> >>

\* The gate closed on the slot processed last, read again.
C3_Witness ==
    /\ Returned
    /\ slot # None
    /\ prev_processed_slot = slot
    /\ ret = Ok("SlotAlreadyProcessed", slot[1])

(***************************************************************************)
(* C4: eager marking, no retry: once the duties reader has answered        *)
(* Ok(true) for slot s, last_processed_slot is Some(s) through every step  *)
(* of produce_block and after the poll, whatever it returns; and every     *)
(* later poll that reads s returns SlotAlreadyProcessed(s) and starts no   *)
(* pipeline.                                                               *)
(***************************************************************************)
C4_EagerMarkingNoRetry ==
    /\ pc \in PipelineSteps => last_processed_slot = slot
    /\ DutyConfirmed => last_processed_slot = slot
    /\ (slot # None /\ slot[1] \in confirmed_before)
        => /\ pc = "idle"
           /\ ret = Ok("SlotAlreadyProcessed", slot[1])
           /\ ~ PipelineStarted

\* A slot whose only earlier poll failed with an Err (it returned no Ok
\* outcome) is read again and found already processed.
C4_Witness ==
    /\ Returned
    /\ slot # None
    /\ slot[1] \in confirmed_before
    /\ slot[1] \notin returned_before
    /\ ret = Ok("SlotAlreadyProcessed", slot[1])

(***************************************************************************)
(* C5, as claimed: once a poll has returned any Ok outcome for slot s,     *)
(* BlockProductionNotRequired(s), ProducerDutiesUnknown(s) and             *)
(* ValidatorIsUnknown(s) included, every later poll that reads a slot      *)
(* s_now <= s returns SlotAlreadyProcessed(s_now).  Stated for the later   *)
(* polls that return an outcome, which the claim implies: a poll that      *)
(* fails with an Err is not held against it.                               *)
(***************************************************************************)
C5_Original_IdempotentAfterAnyOutcome ==
    (Returned /\ IsOk(ret) /\ \E s \in returned_before : slot[1] <= s)
    => ret = Ok("SlotAlreadyProcessed", slot[1])

(***************************************************************************)
(* C5, amended: once a poll has returned BlockProduced(s),                 *)
(* SignerRejection(s), BeaconNodeUnableToProduceBlock(s),                  *)
(* SlashableBlockNotProduced(s) or SlotAlreadyProcessed(s), every later    *)
(* poll that reads a slot s_now <= s returns SlotAlreadyProcessed(s_now),  *)
(* at once.                                                                *)
(***************************************************************************)
C5_IdempotentAfterPipelineOutcome ==
    (slot # None /\ \E s \in handled_before : slot[1] <= s)
    => /\ pc = "idle"
       /\ ret = Ok("SlotAlreadyProcessed", slot[1])

\* A poll reads a slot below one an earlier poll returned a pipeline
\* outcome for, and a slot it returned a non-duty outcome for itself.
C5_Witness ==
    /\ Returned
    /\ slot # None
    /\ \E s \in handled_before : slot[1] < s
    /\ slot[1] \in returned_before
    /\ slot[1] \notin handled_before
    /\ ret = Ok("SlotAlreadyProcessed", slot[1])

(***************************************************************************)
(* C6, as claimed: every poll that reads a slot s_now leaves               *)
(* last_processed_slot at max(s_prev, s_now), whatever the duties reader   *)
(* answered; the pipeline fires only when s_now > s_prev and the duties    *)
(* confirm production.  Stated for the polls that return an outcome, which *)
(* the claim implies: a poll that fails with an Err is not held against    *)
(* it.                                                                     *)
(***************************************************************************)
C6_Original_AlwaysMax ==
    (Returned /\ IsOk(ret))
    => /\ last_processed_slot =
            IF prev_processed_slot = None THEN slot
            ELSE Some(Max(prev_processed_slot[1], slot[1]))
       /\ PipelineStarted =>
            /\ prev_processed_slot = None \/ slot[1] > prev_processed_slot[1]
            /\ DutyConfirmed

(***************************************************************************)
(* C6, amended: a poll that reads a slot s_now leaves last_processed_slot  *)
(* at max(s_prev, s_now) = s_now when the duties reader confirmed          *)
(* production for it, and unchanged otherwise; the pipeline fires exactly  *)
(* when s_now > s_prev (or nothing was processed yet) and the duties       *)
(* confirm production.                                                     *)
(***************************************************************************)
C6_MaxWhenConfirmed ==
    (Returned /\ slot # None)
    => /\ last_processed_slot =
            IF DutyConfirmed
            THEN IF prev_processed_slot = None THEN slot
                 ELSE Some(Max(prev_processed_slot[1], slot[1]))
            ELSE prev_processed_slot
       /\ DutyConfirmed => last_processed_slot = slot
       /\ PipelineStarted <=> DutyConfirmed
       /\ PipelineStarted =>
            prev_processed_slot = None \/ slot[1] > prev_processed_slot[1]
       /\ Called("is_block_production_slot") <=>
            (prev_processed_slot = None \/ slot[1] > prev_processed_slot[1])

\* A poll advanced last_processed_slot from one slot to a greater one and
\* ran the pipeline.
C6_Witness ==
    /\ Returned
    /\ slot # None
    /\ prev_processed_slot # None
    /\ slot[1] > prev_processed_slot[1]
    /\ DutyConfirmed
    /\ PipelineStarted
    /\ last_processed_slot = slot

(***************************************************************************)
(* C7: tests::polling for any produce_slot p and epoch length L with p-1   *)
(* and p+1 in p's epoch: the five polls at p-1, p, p, p+1, (p/L+1)*L       *)
(* return BlockProductionNotRequired(p-1), BlockProduced(p),               *)
(* SlotAlreadyProcessed(p), BlockProductionNotRequired(p+1),               *)
(* ProducerDutiesUnknown((p/L+1)*L), in this order.                        *)
(***************************************************************************)
C7_PollingScenario ==
    LET p == (CHOOSE e \in epoch_map.map : TRUE)[2]
        L == epoch_map.epoch_length
        expected ==
            << Ok("BlockProductionNotRequired", p - 1),
               Ok("BlockProduced", p),
               Ok("SlotAlreadyProcessed", p),
               Ok("BlockProductionNotRequired", p + 1),
               Ok("ProducerDutiesUnknown", ((p \div L) + 1) * L) >>
    IN  \A k \in 1..5 :
            (Returned /\ slot_clock.pos = k) => ret = expected[k]

\* The fifth poll has returned, for a produce_slot beyond epoch 1, and the
\* pipeline ran once, for produce_slot.
C7_Witness ==
    /\ Returned
    /\ slot_clock.pos = 5
    /\ ret[2] = "ProducerDutiesUnknown"
    /\ started = << slot_clock.script[2] >>
    /\ slot_clock.script[2] \div epoch_map.epoch_length > 1

(***************************************************************************)
(* C8: a poll whose clock read fails returns Err(SlotClockError), one      *)
(* whose clock read gives no slot returns Err(SlotUnknowable); either      *)
(* leaves last_processed_slot as it was and calls nothing but the clock.   *)
(***************************************************************************)
C8_ClockFailure ==
    /\ Answered("present_slot", "Err")
        => /\ pc = "idle"
           /\ ret = Err("SlotClockError")
           /\ last_processed_slot = prev_processed_slot
           /\ Len(calls) = 1
    /\ Answered("present_slot", "None")
        => /\ pc = "idle"
           /\ ret = Err("SlotUnknowable")
           /\ last_processed_slot = prev_processed_slot
           /\ Len(calls) = 1

\* The clock fails for a producer that has processed a slot.
C8_Witness ==
    /\ Returned
    /\ Answered("present_slot", "Err")
    /\ ret = Err("SlotClockError")
    /\ last_processed_slot # None

(***************************************************************************)
(* C9: decision outcomes and fatal errors are disjoint: a poll returns     *)
(* Err exactly when the clock errs (SlotClockError), the clock has no slot *)
(* (SlotUnknowable), the duties reader answers EpochLengthIsZero           *)
(* (EpochLengthIsZero) or Poisoned (EpochMapPoisoned), or a beacon-node    *)
(* call fails (BeaconNodeError); every other poll returns Ok.              *)
(***************************************************************************)
C9_ErrExactlyOnFatal ==
    Returned =>
        LET node_failed ==
                \E i \in 1..Len(calls) :
                    /\ calls[i][1] \in { "proposer_nonce", "produce_beacon_block",
                                         "publish_beacon_block" }
                    /\ calls[i][3] \in BeaconNodeErrors
        IN  /\ ret = Err("SlotClockError") <=> Answered("present_slot", "Err")
            /\ ret = Err("SlotUnknowable") <=> Answered("present_slot", "None")
            /\ ret = Err("EpochLengthIsZero")
                 <=> Answered("is_block_production_slot", "EpochLengthIsZero")
            /\ ret = Err("EpochMapPoisoned")
                 <=> Answered("is_block_production_slot", "Poisoned")
            /\ (\E e \in BeaconNodeErrors : ret = From(e)) <=> node_failed
            /\ IsErr(ret) <=>
                 \/ Answered("present_slot", "Err")
                 \/ Answered("present_slot", "None")
                 \/ Answered("is_block_production_slot", "EpochLengthIsZero")
                 \/ Answered("is_block_production_slot", "Poisoned")
                 \/ node_failed
            /\ IsOk(ret) <=> ~ IsErr(ret)

\* The duties reader is poisoned: the poll returns Err(EpochMapPoisoned).
C9_Witness ==
    /\ Returned
    /\ Answered("is_block_production_slot", "Poisoned")
    /\ ret = Err("EpochMapPoisoned")

(***************************************************************************)
(* C10: signer refusal: a poll in which bls_sign returned None, for the    *)
(* RANDAO reveal or for the block, returns SignerRejection(slot) and does  *)
(* not call publish_beacon_block; after a refusal of the RANDAO reveal     *)
(* produce_beacon_block is not called either.                              *)
(***************************************************************************)
C10_SignerRefusal ==
    /\ Answered("bls_sign", "None")
        => /\ pc = "idle"
           /\ ret = Ok("SignerRejection", slot[1])
           /\ ~ Called("publish_beacon_block")
    /\ (\E i \in 1..Len(calls) :
            calls[i] = << "bls_sign", "producer_nonce", "None" >>)
        => ~ Called("produce_beacon_block")

\* The signer signed the RANDAO reveal and refused the block.
C10_Witness ==
    /\ Returned
    /\ \E i \in 1..Len(calls) :
            calls[i] = << "bls_sign", "proposal_root", "None" >>
    /\ Answered("produce_beacon_block", "Some")
    /\ ret = Ok("SignerRejection", slot[1])

(***************************************************************************)
(* The outcomes poll returns without marking the slot, and the calls of    *)
(* produce_block that go to the beacon node.                               *)
(***************************************************************************)
NonDutyOutcomes ==
    { "ProducerDutiesUnknown", "ValidatorIsUnknown",
      "BlockProductionNotRequired" }
BeaconNodeCalls ==
    { "proposer_nonce", "produce_beacon_block", "publish_beacon_block" }

\* The slot now read got a non-duty outcome in an earlier poll (an outcome,
\* and never a pipeline outcome or SlotAlreadyProcessed), and no slot from
\* it upwards has been confirmed as a duty slot: it is still unprocessed.
UnprocessedAfterNonDuty ==
    /\ slot # None
    /\ slot[1] \in returned_before
    /\ slot[1] \notin handled_before
    /\ \A c \in confirmed_before : c < slot[1]

(***************************************************************************)
(* C12: non-duty outcomes are recoverable: a poll that returns             *)
(* ProducerDutiesUnknown(s), ValidatorIsUnknown(s) or                      *)
(* BlockProductionNotRequired(s) leaves last_processed_slot as it was and  *)
(* calls neither the beacon node nor the signer; a later poll that reads   *)
(* the same, still unprocessed slot s asks the duties reader again and, on *)
(* Ok(true), runs the pipeline for s.                                      *)
(***************************************************************************)
C12_NonDutyRecoverable ==
    /\ (Returned /\ IsOk(ret) /\ ret[2] \in NonDutyOutcomes)
        => /\ last_processed_slot = prev_processed_slot
           /\ Len(calls) = 2
           /\ calls[1][1] = "present_slot"
           /\ calls[2][1] = "is_block_production_slot"
    /\ (Returned /\ UnprocessedAfterNonDuty)
        => /\ Called("is_block_production_slot")
           /\ DutyConfirmed =>
                /\ PipelineStarted
                /\ started[Len(started)] = slot[1]
                /\ last_processed_slot = slot

\* A slot that got a non-duty outcome is read again, the duties reader now
\* confirms it and the block is produced.
C12_Witness ==
    /\ Returned
    /\ UnprocessedAfterNonDuty
    /\ DutyConfirmed
    /\ ret = Ok("BlockProduced", slot[1])

(***************************************************************************)
(* C13: beacon-node error propagation: an error e from proposer_nonce,     *)
(* produce_beacon_block or publish_beacon_block ends the poll with         *)
(* Err(BeaconNodeError(e)), the same e, and is the last call of the poll:  *)
(* after a nonce error nothing is signed, after a produce error the block  *)
(* is neither judged, recorded, signed nor published.                      *)
(***************************************************************************)
C13_BeaconNodeErrorPropagates ==
    /\ \A i \in 1..Len(calls) :
         (calls[i][1] \in BeaconNodeCalls /\ calls[i][3] \in BeaconNodeErrors)
         => /\ pc = "idle"
            /\ ret = << "Err", "BeaconNodeError", calls[i][3] >>
            /\ i = Len(calls)
    /\ (\E e \in BeaconNodeErrors : Answered("proposer_nonce", e))
        => ~ Called("bls_sign")
    /\ (\E e \in BeaconNodeErrors : Answered("produce_beacon_block", e))
        => /\ ~ Called("safe_to_produce")
           /\ ~ Called("store_produce")
           /\ ~ Called("publish_beacon_block")
           /\ \A i \in 1..Len(calls) :
                calls[i][1] = "bls_sign" => calls[i][2] = "producer_nonce"

\* The publication of a signed block fails with DecodeFailure.
C13_Witness ==
    /\ Returned
    /\ Answered("publish_beacon_block", "DecodeFailure")
    /\ ret = << "Err", "BeaconNodeError", "DecodeFailure" >>

(***************************************************************************)
(* C14: no candidate block: when produce_beacon_block returns Ok(None)     *)
(* the poll returns BeaconNodeUnableToProduceBlock(slot); the safety       *)
(* predicate is not evaluated, the block signature is not asked for and    *)
(* nothing is published.                                                   *)
(***************************************************************************)
C14_NoCandidateBlock ==
    Answered("produce_beacon_block", "None")
    => /\ pc = "idle"
       /\ ret = Ok("BeaconNodeUnableToProduceBlock", slot[1])
       /\ ~ Called("safe_to_produce")
       /\ ~ Called("store_produce")
       /\ ~ Called("publish_beacon_block")
       /\ \A i \in 1..Len(calls) :
            calls[i][1] = "bls_sign" => calls[i][2] = "producer_nonce"

\* The node has no candidate for a confirmed slot whose RANDAO reveal was
\* signed.
C14_Witness ==
    /\ Returned
    /\ Answered("produce_beacon_block", "None")
    /\ Answered("bls_sign", "Some")
    /\ ret = Ok("BeaconNodeUnableToProduceBlock", slot[1])

(***************************************************************************)
(* C15: BlockProducer::new returns an instance where last_processed_slot   *)
(* == 0 (the documentation of new); stated of the producer no poll has     *)
(* been made on.                                                           *)
(***************************************************************************)
C15_NewIsZero ==
    (pc = "idle" /\ ret = None /\ calls = << >>)
    => last_processed_slot = Some(0)

(***************************************************************************)
(* Slot and Epoch (eth2/types/src/slot_epoch.rs).                          *)
(***************************************************************************)

\* u64::max_value(), which Slot::max_value and Epoch::max_value wrap.
max_value == 2 ^ Bits - 1
u64 == 0 .. max_value
MainTypes == { "Slot", "Epoch" }
OtherTypes == { "same", "u64" }

\* What an operation returns: a value of the type, nothing (the assigning
\* operators), an Option of checked_div or of next, or no return at all
\* when it panics.
Value(v) == << "value", v >>
Unit == << "unit" >>
Panic == << "panic" >>
OptionNone == << "None" >>
OptionSome(v) == << "Some", v >>

\* The arithmetic of u64 that the operators call.
u64_saturating_add(x, y) == IF x + y > max_value THEN max_value ELSE x + y
u64_saturating_sub(x, y) == IF x < y THEN 0 ELSE x - y
u64_saturating_mul(x, y) == IF x * y > max_value THEN max_value ELSE x * y
\* Rust's / and % panic on a zero divisor in every build.
u64_div(x, y) == IF y = 0 THEN Panic ELSE Value(x \div y)
u64_rem(x, y) == IF y = 0 THEN Panic ELSE Value(x % y)

\* impl_math_between!: the operators between a $main and an $other.  Both
\* sides are read through into(), which gives the u64 field.
add_wrapping(x, y) == (x + y) % (2 ^ Bits)
add(x, y) == u64_saturating_add(x, y)
add_assign(x, y) == u64_saturating_add(x, y)
sub(x, y) == u64_saturating_sub(x, y)
sub_assign(x, y) == u64_saturating_sub(x, y)
mul(x, y) == u64_saturating_mul(x, y)
mul_assign(x, y) == u64_saturating_mul(x, y)
div_zero_is_zero(x, y) == IF y = 0 THEN Value(0) ELSE u64_div(x, y)
div(x, y) == IF y = 0 THEN Panic ELSE u64_div(x, y)
div_assign(x, y) == IF y = 0 THEN Panic ELSE u64_div(x, y)
rem(x, y) == u64_rem(x, y)

\* impl_math!: the methods of the type.
saturating_sub(x, y) == sub(x, y)
checked_div_zero_quotient(x, y) ==
    IF y = 0 THEN OptionSome(0) ELSE OptionSome(x \div y)
checked_div(x, y) == IF y = 0 THEN OptionNone ELSE OptionSome(div(x, y)[2])

\* Slot::epoch.
epoch(s, epoch_length) == u64_div(s, epoch_length)

\* Epoch::start_slot and Epoch::end_slot.
start_slot(e, epoch_length) == u64_saturating_mul(e, epoch_length)
end_slot(e, epoch_length) ==
    u64_saturating_sub(
        u64_saturating_mul(u64_saturating_add(e, 1), epoch_length), 1)

\* Epoch::slot_iter builds a SlotIter.
SlotIter(current, e, epoch_length) ==
    [ current |-> current, epoch |-> e, epoch_length |-> epoch_length ]
slot_iter(e, epoch_length) ==
    SlotIter(start_slot(e, epoch_length), e, epoch_length)

\* Iterator::next of SlotIter: the item, and the iterator after the call.
SlotIter_next_item(it) ==
    IF it.current = end_slot(it.epoch, it.epoch_length)
    THEN OptionNone
    ELSE OptionSome(it.current)
SlotIter_next_iter(it) ==
    IF it.current = end_slot(it.epoch, it.epoch_length)
    THEN it
    ELSE [ it EXCEPT !.current = add_assign(@, 1) ]

\* One operation applied to the operands: what it returns and what it
\* leaves in the receiver.
Apply(name, returned, receiver) ==
    /\ applied = "none"
    /\ applied' = name
    /\ result' = returned
    /\ self' = receiver
    /\ UNCHANGED << main, other, lhs, rhs, iter, yielded >>
    /\ UNCHANGED producer_vars

Add == Apply("add", Value(add(self, rhs)), self)
AddAssign == Apply("add_assign", Unit, add_assign(self, rhs))
Sub == Apply("sub", Value(sub(self, rhs)), self)
SubAssign == Apply("sub_assign", Unit, sub_assign(self, rhs))
Mul == Apply("mul", Value(mul(self, rhs)), self)
MulAssign == Apply("mul_assign", Unit, mul_assign(self, rhs))
Div == Apply("div", div(self, rhs), self)
DivAssign ==
    LET quotient == div_assign(self, rhs)
    IN  IF quotient = Panic
        THEN Apply("div_assign", Panic, self)
        ELSE Apply("div_assign", Unit, quotient[2])
Rem == Apply("rem", rem(self, rhs), self)

\* The methods take any T: Into<$type>.
SaturatingSub == Apply("saturating_sub", Value(saturating_sub(self, rhs)), self)
CheckedDiv == Apply("checked_div", checked_div(self, rhs), self)

\* The methods of one type only; rhs is the epoch_length, a u64.
Slot_epoch ==
    /\ main = "Slot"
    /\ other = "u64"
    /\ Apply("epoch", epoch(self, rhs), self)

Epoch_start_slot ==
    /\ main = "Epoch"
    /\ other = "u64"
    /\ Apply("start_slot", Value(start_slot(self, rhs)), self)

Epoch_end_slot ==
    /\ main = "Epoch"
    /\ other = "u64"
    /\ Apply("end_slot", Value(end_slot(self, rhs)), self)

Epoch_slot_iter ==
    /\ main = "Epoch"
    /\ other = "u64"
    /\ applied = "none"
    /\ applied' = "slot_iter"
    /\ iter' = Some(slot_iter(self, rhs))
    /\ UNCHANGED << main, other, lhs, rhs, self, result, yielded >>
    /\ UNCHANGED producer_vars

\* The two conversions one after the other, from a Slot to its Epoch and
\* on to the boundaries of that Epoch ...
Bounds(e, first, last) == << "bounds", e, first, last >>
Slot_epoch_boundaries ==
    /\ main = "Slot"
    /\ other = "u64"
    /\ Apply("epoch_boundaries",
             IF epoch(self, rhs) = Panic
             THEN Panic
             ELSE Bounds(epoch(self, rhs)[2],
                         start_slot(epoch(self, rhs)[2], rhs),
                         end_slot(epoch(self, rhs)[2], rhs)),
             self)

\* ... and from an Epoch to its boundaries and on to the Epoch of each.
EpochsOfBoundaries(of_first, of_last) == << "epochs", of_first, of_last >>
Epoch_boundaries_epoch ==
    /\ main = "Epoch"
    /\ other = "u64"
    /\ Apply("boundaries_epoch",
             EpochsOfBoundaries(epoch(start_slot(self, rhs), rhs),
                                epoch(end_slot(self, rhs), rhs)),
             self)

\* One call of next.  A correct iterator over an epoch ends before it has
\* yielded more slots than the type has values; the calls stop there.
SlotIter_next ==
    /\ iter # None
    /\ Len(yielded) <= max_value + 1
    /\ applied' = "next"
    /\ result' = SlotIter_next_item(iter[1])
    /\ iter' = Some(SlotIter_next_iter(iter[1]))
    /\ yielded' = IF SlotIter_next_item(iter[1]) = OptionNone
                  THEN yielded
                  ELSE Append(yielded, SlotIter_next_item(iter[1])[2])
    /\ UNCHANGED << main, other, lhs, rhs, self >>
    /\ UNCHANGED producer_vars

\* Any two operands of any of the types; the producer stands by.
InitSlotEpoch ==
    /\ new(AnyCollaborator, AnyCollaborator, AnyCollaborator, AnyCollaborator)
    /\ main \in MainTypes
    /\ other \in OtherTypes
    /\ lhs \in u64
    /\ rhs \in u64
    /\ self = lhs
    /\ applied = "none"
    /\ result = None
    /\ iter = None
    /\ yielded = << >>

NextSlotEpoch ==
    \/ Add
    \/ AddAssign
    \/ Sub
    \/ SubAssign
    \/ Mul
    \/ MulAssign
    \/ Div
    \/ DivAssign
    \/ Rem
    \/ SaturatingSub
    \/ CheckedDiv
    \/ Slot_epoch
    \/ Epoch_start_slot
    \/ Epoch_end_slot
    \/ Epoch_slot_iter
    \/ Slot_epoch_boundaries
    \/ Epoch_boundaries_epoch
    \/ SlotIter_next

SpecSlotEpoch == InitSlotEpoch /\ [][NextSlotEpoch]_vars

(***************************************************************************)
(* Claims about Slot and Epoch, checked under SpecSlotEpoch.  In them lhs  *)
(* is the Epoch E or the value a, rhs the epoch_length L or the value b,   *)
(* and +, - and * are those of the integers, which do not saturate.        *)
(***************************************************************************)

\* The epoch's boundaries are those of the integers: E*L and (E+1)*L - 1
\* are both values of the type.
BoundariesRepresentable == rhs > 0 /\ (lhs + 1) * rhs - 1 <= max_value
\* No step of the computation of the boundaries saturates.
BoundariesExact == rhs > 0 /\ (lhs + 1) * rhs <= max_value

\* C16: for every Epoch E and every epoch_length L > 0, E.start_slot(L)
\* equals E*L and E.end_slot(L) equals (E+1)*L - 1.  Stated where both are
\* values of the type, which is the least the claim says.
C16_EpochBoundaryLaw ==
    BoundariesRepresentable =>
        /\ applied = "start_slot" => result = Value(lhs * rhs)
        /\ applied = "end_slot" => result = Value((lhs + 1) * rhs - 1)

\* C17: for every Epoch E and epoch_length L > 0, once next has returned
\* None, E.slot_iter(L) has yielded exactly L slots, E.start_slot(L),
\* E.start_slot(L)+1, ..., E.end_slot(L) in this order, the end slot
\* included.  Stated for the epochs whose boundaries do not saturate.
C17_SlotIterContent ==
    (BoundariesExact /\ applied = "next" /\ result = OptionNone) =>
        /\ Len(yielded) = rhs
        /\ \A i \in 1 .. Len(yielded) :
               yielded[i] = start_slot(lhs, rhs) + i - 1
        /\ yielded[Len(yielded)] = end_slot(lhs, rhs)

\* C18: for every Epoch E and every epoch_length L, repeatedly calling next
\* on E.slot_iter(L) eventually returns None.  The iterator's state is its
\* current slot, which never decreases and has max_value above it, and next
\* is a function of that state: the calls come to None exactly when every
\* call that yields a slot moves current on.
C18_SlotIterFinite ==
    [][ (iter # None /\ applied' = "next" /\ result' # OptionNone)
            => iter'[1].current > iter[1].current ]_vars

\* The value v of the integers brought into the range of the type.
Clamp(v) == IF v < 0 THEN 0 ELSE IF v > max_value THEN max_value ELSE v

\* C19: for Slot and Epoch, against the same type or a raw integer, the
\* operators +, +=, -, -=, *, *= give the exact result clamped to
\* [0, max_value]; in particular a + max_value is max_value,
\* max_value * 2 is max_value and 0 - 1 is 0.
C19_SaturationLaw ==
    /\ applied = "add" => result = Value(Clamp(lhs + rhs))
    /\ applied = "add_assign" => (result = Unit /\ self = Clamp(lhs + rhs))
    /\ applied = "sub" => result = Value(Clamp(lhs - rhs))
    /\ applied = "sub_assign" => (result = Unit /\ self = Clamp(lhs - rhs))
    /\ applied = "mul" => result = Value(Clamp(lhs * rhs))
    /\ applied = "mul_assign" => (result = Unit /\ self = Clamp(lhs * rhs))
    /\ (applied = "add" /\ rhs = max_value) => result = Value(max_value)
    /\ (applied = "mul" /\ lhs = max_value /\ rhs = 2)
           => result = Value(max_value)
    /\ (applied = "sub" /\ lhs = 0 /\ rhs = 1) => result = Value(0)

\* An Epoch times an Epoch went over max_value and was left at max_value.
C19_Witness ==
    /\ main = "Epoch"
    /\ other = "same"
    /\ applied = "mul_assign"
    /\ lhs * rhs > max_value
    /\ self = max_value

\* C20: for every Slot or Epoch a, a / 0, a /= 0 and a % 0, zero of the
\* same type or a raw integer, panic and return no value, a /= 0 leaving a
\* as it was, and Slot.epoch(0) does the same.
C20_DivisionByZeroPanics ==
    (rhs = 0 /\ applied \in { "div", "div_assign", "rem", "epoch" }) =>
        /\ result = Panic
        /\ self = lhs

\* A Slot was divided in place by the Slot zero.
C20_Witness ==
    /\ main = "Slot"
    /\ other = "same"
    /\ applied = "div_assign"
    /\ rhs = 0
    /\ result = Panic

\* C21: for all a and b of Slot or of Epoch, a.checked_div(b) returns None
\* when b is zero and otherwise Some(q), q the floor quotient of a by b,
\* which is what a / b returns; a.saturating_sub(b) returns a - b when
\* a >= b and 0 otherwise.  Neither panics nor changes a.
C21_CheckedDivSaturatingSub ==
    /\ applied = "checked_div" =>
           /\ rhs = 0 => result = OptionNone
           /\ rhs # 0 => /\ result = OptionSome(lhs \div rhs)
                         /\ Value(result[2]) = div(lhs, rhs)
           /\ self = lhs
    /\ applied = "saturating_sub" =>
           /\ lhs >= rhs => result = Value(lhs - rhs)
           /\ lhs < rhs => result = Value(0)
           /\ self = lhs

\* An Epoch was divided by zero through checked_div, which returned None.
C21_Witness ==
    /\ main = "Epoch"
    /\ applied = "checked_div"
    /\ lhs > 0
    /\ rhs = 0
    /\ result = OptionNone

(***************************************************************************)
(* Claims about the order of the calls within one poll, checked under Spec.*)
(***************************************************************************)

\* The calls of poll and produce_block in the order of the code, each with
\* the argument that tells the two bls_sign requests apart and the block
\* that is published.
PipelineOrder ==
    << << "present_slot", "" >>,
       << "is_block_production_slot", "" >>,
       << "proposer_nonce", "" >>,
       << "bls_sign", "producer_nonce" >>,
       << "produce_beacon_block", "" >>,
       << "safe_to_produce", "" >>,
       << "bls_sign", "proposal_root" >>,
       << "publish_beacon_block", "signed" >> >>

\* The answer with which poll or produce_block goes on to its next call.
StepSucceeded(c) ==
    CASE c[1] = "present_slot"             -> c[3] = "Some"
      [] c[1] = "is_block_production_slot" -> c[3] = "true"
      [] c[1] = "proposer_nonce"           -> c[3] = "Ok"
      [] c[1] = "bls_sign"                 -> c[3] = "Some"
      [] c[1] = "produce_beacon_block"     -> c[3] = "Some"
      [] c[1] = "safe_to_produce"          -> c[3] = "true"
      [] OTHER                             -> TRUE

\* The calls of this poll without the record store_produce keeps.
IsPipelineCall(c) == c[1] # "store_produce"
PipelineCalls == SelectSeq(calls, IsPipelineCall)

\* C22: within one poll the calls occur in the fixed order clock read,
\* duties lookup, proposer_nonce, bls_sign of the RANDAO message,
\* produce_beacon_block, safety predicate, bls_sign of the block root,
\* publish_beacon_block; a call is made only if every earlier one
\* succeeded, so publish_beacon_block is called at most once per poll, last,
\* with the signed block.
C22_PipelineOrdering ==
    /\ Len(PipelineCalls) <= Len(PipelineOrder)
    /\ \A i \in 1 .. Len(PipelineCalls) :
         /\ << PipelineCalls[i][1], PipelineCalls[i][2] >> = PipelineOrder[i]
         /\ i < Len(PipelineCalls) => StepSucceeded(PipelineCalls[i])

\* A poll went through all eight calls.
C22_Witness ==
    /\ pc = "idle"
    /\ Len(PipelineCalls) = Len(PipelineOrder)
    /\ Called("publish_beacon_block")

\* C23: store_produce, which stands for the record of the production
\* attempt, is called only for a candidate the safety predicate has just
\* passed, and before the final bls_sign request: every request for the
\* signature of a block root comes right after the store_produce of that
\* block, also when the signer then refuses.
C23_RecordBeforeSign ==
    \A i \in 1 .. Len(calls) :
        /\ calls[i][1] = "store_produce" =>
               /\ i > 1
               /\ calls[i - 1] = << "safe_to_produce", "", "true" >>
               /\ \A j \in 1 .. i : ~ (calls[j][1] = "bls_sign"
                                       /\ calls[j][2] = "proposal_root")
        /\ (calls[i][1] = "bls_sign" /\ calls[i][2] = "proposal_root") =>
               /\ i > 1
               /\ calls[i - 1][1] = "store_produce"

\* The signer refused the block root after the attempt had been recorded.
C23_Witness ==
    /\ Returned
    /\ Called("store_produce")
    /\ Answered("bls_sign", "None")
    /\ calls[Len(calls)] = << "bls_sign", "proposal_root", "None" >>
    /\ ret = Ok("SignerRejection", slot[1])

\* C24: poll returns BlockProduced(slot) whenever publish_beacon_block
\* returns without a node error, whatever PublishOutcome it carries: also
\* for a block the node reports as invalid; the slot stays marked as
\* processed.
C24_PublishOutcomeIgnored ==
    (Returned /\ calls[Len(calls)][1] = "publish_beacon_block"
              /\ calls[Len(calls)][3] \in PublishOutcomes) =>
        /\ ret = << "Ok", "BlockProduced", slot[1] >>
        /\ last_processed_slot = slot

\* The node reported the published block as invalid.
C24_Witness ==
    /\ Returned
    /\ calls[Len(calls)] = << "publish_beacon_block", "signed", "InvalidBlock" >>
    /\ ret = << "Ok", "BlockProduced", slot[1] >>
    /\ last_processed_slot = slot

\* C25: safe_to_produce returns true for every block, so no sequence of
\* polls, whatever the collaborators answer, returns
\* SlashableBlockNotProduced, and every candidate block the node produces
\* is passed on to sign_block.
C25_NeverSlashable ==
    /\ \A s \in Slots : ret # << "Ok", "SlashableBlockNotProduced", s >>
    /\ ~ Answered("safe_to_produce", "false")
    /\ Answered("produce_beacon_block", "Some") =>
           /\ Answered("safe_to_produce", "true")
           /\ pc = "sign_block" \/ Called("store_produce")

\* The node produced a candidate, which is about to be signed.
C25_Witness ==
    /\ pc = "sign_block"
    /\ block = "candidate"
    /\ calls[Len(calls)] = << "safe_to_produce", "", "true" >>

\* The slots for which this producer has entered produce_block, in order.
\* poll enters it in the step that marks the slot; started takes the slot
\* up with the first call produce_block makes.
PipelinesStarted ==
    IF pc = "proposer_nonce" THEN Append(started, slot[1]) ELSE started

C27_RoundTrip ==
    /\ (applied = "epoch_boundaries" /\ rhs > 0) =>
           /\ result[1] = "bounds"
           /\ result[2] = lhs \div rhs
           /\ result[3] <= lhs
           /\ lhs <= result[4]
    /\ (applied = "boundaries_epoch" /\ BoundariesExact) =>
           result = << "epochs", Value(lhs), Value(lhs) >>

=============================================================================
